---------------------------- MODULE Spec2Model ----------------------------
(***************************************************************************)
(* A model of the SUS serializer of susc-converter                         *)
(* (custom_sus_io/dumper.py): the channel allocator ChannelProvider, and   *)
(* dump/dumps with its nested push_raw.                                    *)
(*                                                                         *)
(* Strings are modelled as sequences of digit values: a base-36 or decimal *)
(* digit is its value 0..35, so "08" is <<0, 8>> and "1a" is <<1, 10>>.    *)
(* Bar-length values are Python floats (IEEE-754 doubles), and the float   *)
(* arithmetic of dumps on them is computed bit for bit.                    *)
(***************************************************************************)
EXTENDS Integers, Sequences, FiniteSets, TLC

VARIABLES
    \* ---- the allocator on its own (AllocSpec) ----
    channel_map,     \* ChannelProvider.channel_map: channel id -> <<start, end>>
    assigned,        \* history: the set of <<start_tick, end_tick, channel>> handed out
    calls,           \* history: number of generate_channel calls made
    last,            \* history: the last call and the key it returned
    \* ---- dump/dumps (Spec) ----
    score,           \* the Score argument
    pc,              \* position in dump/dumps
    lines,           \* dumps' local `lines`
    ticks_per_beat,  \* dumps' local `ticks_per_beat`
    bar_lengths_in_ticks, \* dumps' local list of BarLength(start_tick, measure, value)
    note_maps,       \* dumps' local defaultdict, in insertion order
    bpm_identifiers, \* dumps' local dict value -> identifier, in insertion order
    slide_provider,  \* channel_map of the slides' ChannelProvider
    guide_provider,  \* channel_map of the guides' ChannelProvider
    pushed,          \* history: every push_raw call, with the segment it found
    failure,         \* the exception that ended dumps, "" when none
    written          \* what fp.write received; <<>> before the write

avars == <<channel_map, assigned, calls, last>>
dvars == <<score, pc, lines, ticks_per_beat, bar_lengths_in_ticks, note_maps,
           bpm_identifiers, slide_provider, guide_provider, pushed, failure,
           written>>
vars == <<channel_map, assigned, calls, last,
          score, pc, lines, ticks_per_beat, bar_lengths_in_ticks, note_maps,
          bpm_identifiers, slide_provider, guide_provider, pushed, failure,
          written>>

-----------------------------------------------------------------------------
(* Program constants *)

\* range(36) in ChannelProvider.__init__
NumChannels == 36

\* the default ticks_per_beat of dumps
DefaultTicksPerBeat == 480

\* 36 ** 2 - 1, the limit dumps compares len(bpms) with
BpmLimit == 36 * 36 - 1

-----------------------------------------------------------------------------
(* ChannelProvider *)

Channels == 0 .. (NumChannels - 1)

\* ChannelProvider.__init__: every channel starts as (0, 0)
NewChannelMap == [key \in Channels |-> <<0, 0>>]

\* the spec's conflict relation between two intervals
Overlap(a, b) == ~(a[2] < b[1] \/ b[2] < a[1])

\* the condition of generate_channel's if: the channel may take the interval
ChannelFree(binding, start_tick, end_tick) ==
    \/ (binding[1] = 0 /\ binding[2] = 0)
    \/ end_tick < binding[1]
    \/ binding[2] < start_tick

\* generate_channel: the first key, in dict order 0..35, whose binding is
\* free; key = -1 stands for the raise at the end of the loop.
GenerateChannel(map, start_tick, end_tick) ==
    LET free == {key \in Channels : ChannelFree(map[key], start_tick, end_tick)}
    IN  IF free = {}
        THEN [key |-> -1, map |-> map]
        ELSE LET key == CHOOSE k \in free : \A j \in free : k <= j
             IN  [key |-> key,
                  map |-> [map EXCEPT ![key] = <<start_tick, end_tick>>]]

-----------------------------------------------------------------------------
(* Strings and numbers *)

RECURSIVE Base36Dumps(_)
\* base36.dumps(n) for n >= 0: the base-36 digits of n, most significant first
Base36Dumps(n) ==
    IF n < 36 THEN <<n>> ELSE Base36Dumps(n \div 36) \o <<n % 36>>

RECURSIVE DecimalDigits(_)
\* str(n) for n >= 0, as in f'{note.type}' and f'{measure:03}'
DecimalDigits(n) ==
    IF n < 10 THEN <<n>> ELSE DecimalDigits(n \div 10) \o <<n % 10>>

RECURSIVE ZFill(_, _)
\* str.zfill(width), and the 0-padding of the format spec :03
ZFill(s, width) == IF Len(s) >= width THEN s ELSE ZFill(<<0>> \o s, width)

\* the empty-cell symbol '00'
EmptyCell == <<0, 0>>

\* f'{note.type}{base36.dumps(note.width)}'
NoteData(note) == DecimalDigits(note.type) \o Base36Dumps(note.width)

\* the line tags '08', f'1{lane}' and f'5{lane}'
BpmInfo == <<0, 8>>
TapInfo(note) == <<1>> \o Base36Dumps(note.lane)
DirectionalInfo(note) == <<5>> \o Base36Dumps(note.lane)

\* f'{current_measure:03}{info}'
NoteTag(current_measure, info) == ZFill(DecimalDigits(current_measure), 3) \o info

RECURSIVE Gcd(_, _)
\* math.gcd on non-negative integers
Gcd(a, b) == IF b = 0 THEN a ELSE Gcd(b, a % b)

\* s rearranged so that position k holds s[at[k]]
Rearranged(s, at) == [k \in 1 .. Len(s) |-> s[at[k]]]

\* the inverse of the permutation rank
InverseOf(rank) ==
    [k \in DOMAIN rank |-> CHOOSE i \in DOMAIN rank : rank[i] = k]

\* the position a stable ascending sort gives each element
StableRanks(keys) ==
    [i \in DOMAIN keys |->
        1 + Cardinality({j \in DOMAIN keys :
                \/ keys[j] < keys[i]
                \/ (keys[j] = keys[i] /\ j < i)})]

\* sorted(s, key=...): stable, ascending by key; keys[i] is the key of s[i]
\* (x[0] for the tuples, x.tick for notes). A list already in order is
\* returned as it is.
SortedByKeys(s, keys) ==
    IF \A i \in 1 .. (Len(s) - 1) : keys[i] <= keys[i + 1]
    THEN s
    ELSE Rearranged(s, InverseOf(StableRanks(keys)))

\* the sorted locals of dumps
bar_lengths == SortedByKeys(score.bar_lengths,
                            [i \in 1 .. Len(score.bar_lengths) |-> score.bar_lengths[i][1]])
bpms == SortedByKeys(score.bpms, [i \in 1 .. Len(score.bpms) |-> score.bpms[i][1]])
taps == SortedByKeys(score.taps, [i \in 1 .. Len(score.taps) |-> score.taps[i].tick])
directionals == SortedByKeys(score.directionals,
                    [i \in 1 .. Len(score.directionals) |-> score.directionals[i].tick])
\* score.slides in the order the caller gave, without the sort by first tick
SlidesAsGiven == score.slides
slides == SortedByKeys(score.slides,
                       [i \in 1 .. Len(score.slides) |-> score.slides[i][1].tick])
guides == SortedByKeys(score.guides,
                       [i \in 1 .. Len(score.guides) |-> score.guides[i][1].tick])
tils == SortedByKeys(score.tils, [i \in 1 .. Len(score.tils) |-> score.tils[i][1]])

-----------------------------------------------------------------------------
(* Python floats.  A float is [m, e]: the double m * 2^e with              *)
(* 2^52 <= m < 2^53, or m = 0.  m is a 4-limb number in base 2^18, least   *)
(* significant limb first, so that no step leaves 32-bit integers.         *)

LimbBase == 512 * 512

BigZero == <<0, 0, 0, 0>>
Two52 == <<0, 0, 65536, 0>>
Two53 == <<0, 0, 131072, 0>>

\* the limbs after carrying; the limbs given are >= 0 and may exceed the base
BigCarry(l) ==
    LET t2 == l[2] + (l[1] \div LimbBase)
        t3 == l[3] + (t2 \div LimbBase)
        t4 == l[4] + (t3 \div LimbBase)
    IN  <<l[1] % LimbBase, t2 % LimbBase, t3 % LimbBase, t4>>

BigFromInt(x) == BigCarry(<<x, 0, 0, 0>>)
BigToInt(a) == a[1] + a[2] * LimbBase
BigTimes(a, n) == BigCarry(<<a[1] * n, a[2] * n, a[3] * n, a[4] * n>>)
BigPlusOne(a) == BigCarry(<<a[1] + 1, a[2], a[3], a[4]>>)
BigOdd(a) == a[1] % 2 = 1
BigHalf(a) ==
    LET t3 == a[3] + (a[4] % 2) * LimbBase
        t2 == a[2] + (t3 % 2) * LimbBase
        t1 == a[1] + (t2 % 2) * LimbBase
    IN  <<t1 \div 2, t2 \div 2, t3 \div 2, a[4] \div 2>>
BigLess(a, b) ==
    \/ a[4] < b[4]
    \/ a[4] = b[4] /\ a[3] < b[3]
    \/ a[4] = b[4] /\ a[3] = b[3] /\ a[2] < b[2]
    \/ a[4] = b[4] /\ a[3] = b[3] /\ a[2] = b[2] /\ a[1] < b[1]
\* a - b, for a >= b
BigMinus(a, b) ==
    LET d1 == a[1] - b[1]
        b1 == IF d1 < 0 THEN 1 ELSE 0
        d2 == a[2] - b[2] - b1
        b2 == IF d2 < 0 THEN 1 ELSE 0
        d3 == a[3] - b[3] - b2
        b3 == IF d3 < 0 THEN 1 ELSE 0
    IN  <<d1 + b1 * LimbBase, d2 + b2 * LimbBase, d3 + b3 * LimbBase,
          a[4] - b[4] - b3>>

FloatZero == [m |-> BigZero, e |-> 0]

RECURSIVE FloatScaleUp(_)
\* f.m * 2^f.e with f.m > 0 brought up to 2^52 <= m
FloatScaleUp(f) ==
    IF BigLess(f.m, Two52)
    THEN FloatScaleUp([m |-> BigTimes(f.m, 2), e |-> f.e - 1])
    ELSE f

\* the mantissa q rounded up by one unit in the last place
FloatNextUp(q, e) ==
    LET up == BigPlusOne(q)
    IN  IF up = Two53 THEN [m |-> Two52, e |-> e + 1] ELSE [m |-> up, e |-> e]

RECURSIVE FloatScaleDown(_)
\* s.m * 2^s.e brought down to m < 2^53, rounded to nearest, ties to even;
\* s.half and s.sticky are the bits shifted out so far
FloatScaleDown(s) ==
    IF BigLess(s.m, Two53)
    THEN IF s.half /\ (s.sticky \/ BigOdd(s.m)) THEN FloatNextUp(s.m, s.e)
         ELSE [m |-> s.m, e |-> s.e]
    ELSE FloatScaleDown([m |-> BigHalf(s.m), e |-> s.e + 1, half |-> BigOdd(s.m),
                         sticky |-> s.sticky \/ s.half])

\* the double nearest to the integer m * 2^e
FloatRound(m, e) ==
    IF m = BigZero THEN FloatZero
    ELSE IF BigLess(m, Two52) THEN FloatScaleUp([m |-> m, e |-> e])
    ELSE FloatScaleDown([m |-> m, e |-> e, half |-> FALSE, sticky |-> FALSE])

\* float(x) for an int 0 <= x < 2^31
FloatFromInt(x) == FloatRound(BigFromInt(x), 0)

\* a * n for a float a and an int 0 <= n < 2^12, correctly rounded
FloatTimesInt(a, n) == FloatRound(BigTimes(a.m, n), a.e)

RECURSIVE LongDivision(_, _, _)
\* n more quotient bits of s.r / d, for s.r < d, appended to s.q
LongDivision(s, d, n) ==
    IF n = 0 THEN s
    ELSE LET r2 == BigTimes(s.r, 2)
         IN  IF BigLess(r2, d)
             THEN LongDivision([q |-> BigTimes(s.q, 2), r |-> r2], d, n - 1)
             ELSE LongDivision([q |-> BigPlusOne(BigTimes(s.q, 2)),
                                r |-> BigMinus(r2, d)], d, n - 1)

\* a / b for floats a >= 0 and b > 0, correctly rounded (ties to even)
FloatDivide(a, b) ==
    IF a.m = BigZero THEN FloatZero
    ELSE LET above == ~BigLess(a.m, b.m)
             bits == IF above THEN 52 ELSE 53
             got == IF above
                    THEN LongDivision([q |-> <<1, 0, 0, 0>>, r |-> BigMinus(a.m, b.m)],
                                      b.m, bits)
                    ELSE LongDivision([q |-> BigZero, r |-> a.m], b.m, bits)
             twice == BigTimes(got.r, 2)
             e == a.e - b.e - bits
         IN  IF BigLess(b.m, twice) \/ (twice = b.m /\ BigOdd(got.q))
             THEN FloatNextUp(got.q, e)
             ELSE [m |-> got.q, e |-> e]

RECURSIVE BigShiftRight(_, _)
BigShiftRight(m, n) == IF n = 0 \/ m = BigZero THEN m ELSE BigShiftRight(BigHalf(m), n - 1)

\* int(a) for a float 0 <= a < 2^31
FloatToInt(a) == BigToInt(BigShiftRight(a.m, 0 - a.e))

\* the bar-length values of the model: 3.0, 4.0 and 3.2, the last being the
\* double 7205759403792794 * 2^-51
Float3 == FloatFromInt(3)
Float4 == FloatFromInt(4)
Float3_2 == [m |-> <<104858, 157286, 104857, 0>>, e |-> -51]

-----------------------------------------------------------------------------
(* dumps: the metadata section *)

\* a variant that puts no blank line before the request directives
FieldLinesUnseparated(field) ==
    IF ~field.present THEN <<>>
    ELSE IF field.name # "requests"
         THEN <<[kind |-> "meta", name |-> field.name, quoted |-> field.is_str]>>
         ELSE [i \in 1 .. Len(field.requests) |->
                  [kind |-> "request", request |-> field.requests[i]]]

\* the lines one metadata field appends: nothing for None, one directive for
\* a plain field, and for requests a blank line and one directive per request
FieldLines(field) ==
    IF ~field.present THEN <<>>
    ELSE IF field.name # "requests"
         THEN <<[kind |-> "meta", name |-> field.name, quoted |-> field.is_str]>>
         ELSE <<[kind |-> "blank"]>> \o
              [i \in 1 .. Len(field.requests) |->
                  [kind |-> "request", request |-> field.requests[i]]]

RECURSIVE TicksPerBeatAfter(_, _, _)
\* the ticks_per_beat left by the requests from index i on: every request
\* that starts with 'ticks_per_beat' overrides it with its second word
TicksPerBeatAfter(requests, i, tpb) ==
    IF i > Len(requests) THEN tpb
    ELSE TicksPerBeatAfter(requests, i + 1,
            IF requests[i].word = "ticks_per_beat" THEN requests[i].arg ELSE tpb)

RECURSIVE MetadataLoop(_, _, _)
\* for field in fields(score.metadata): ...
MetadataLoop(metadata, i, acc) ==
    IF i > Len(metadata) THEN acc
    ELSE LET field == metadata[i]
         IN  MetadataLoop(metadata, i + 1,
                [lines |-> acc.lines \o FieldLines(field),
                 ticks_per_beat |->
                    IF field.present /\ field.name = "requests"
                    THEN TicksPerBeatAfter(field.requests, 1, acc.ticks_per_beat)
                    ELSE acc.ticks_per_beat])

-----------------------------------------------------------------------------
(* dumps: the measure segments *)

RECURSIVE AccumulatedTicks(_, _, _)
\* accumulated_ticks when the loop reaches entry `index` of bar_lengths
\* (1-based), each step adding int((nextMeasure - measure) * value *
\* ticks_per_beat); what the last entry adds is never read
AccumulatedTicks(bl, tpb, index) ==
    IF index = 1 THEN 0
    ELSE LET j == index - 1
             nextMeasure == bl[j + 1][1]
         IN  AccumulatedTicks(bl, tpb, j)
                + FloatToInt(FloatTimesInt(
                                FloatTimesInt(bl[j][2], nextMeasure - bl[j][1]), tpb))

\* bar_lengths_in_ticks after the loop and the reverse()
BarLengthsInTicks(bl, tpb) ==
    LET n == Len(bl)
        forward == [index \in 1 .. n |->
                       [start_tick |-> AccumulatedTicks(bl, tpb, index),
                        measure |-> bl[index][1],
                        value |-> bl[index][2]]]
    IN  [index \in 1 .. n |-> forward[n + 1 - index]]

-----------------------------------------------------------------------------
(* dumps: push_raw *)

NoSegment == [start_tick |-> -1, measure |-> -1, value |-> FloatZero]

\* the index in note_maps of the bucket with this tag, 0 when there is none
BucketIndex(maps, tag) ==
    IF \E k \in 1 .. Len(maps) : maps[k].tag = tag
    THEN CHOOSE k \in 1 .. Len(maps) : maps[k].tag = tag
    ELSE 0

\* note_map = note_maps[tag]; note_map['raws'].append(...);
\* note_map['ticks_per_measure'] = ...
BucketPush(maps, tag, offset, data, ticks_per_measure) ==
    LET k == BucketIndex(maps, tag)
    IN  IF k = 0
        THEN Append(maps, [tag |-> tag, raws |-> <<<<offset, data>>>>,
                           ticks_per_measure |-> ticks_per_measure])
        ELSE [maps EXCEPT ![k] = [tag |-> tag,
                                  raws |-> Append(maps[k].raws, <<offset, data>>),
                                  ticks_per_measure |-> ticks_per_measure]]

\* the loop of push_raw: the first segment of the reversed list with
\* tick >= start_tick; 0 when the loop ends without a break
LocateSegment(tick) ==
    LET found == {i \in 1 .. Len(bar_lengths_in_ticks) :
                    tick >= bar_lengths_in_ticks[i].start_tick}
    IN  IF found = {} THEN 0 ELSE CHOOSE i \in found : \A j \in found : i <= j

\* current_measure of push_raw:
\* measure + int((tick - start_tick) / ticks_per_beat / value), in floats
CurrentMeasure(bar_length, tick) ==
    bar_length.measure
        + FloatToInt(FloatDivide(
              FloatDivide(FloatFromInt(tick - bar_length.start_tick),
                          FloatFromInt(ticks_per_beat)),
              bar_length.value))

\* the body of push_raw's if, for the segment bar_length and its
\* current_measure
PushFound(acc, tick, info, data, bar_length, current_measure) ==
    [note_maps |->
         BucketPush(acc.note_maps, NoteTag(current_measure, info),
                    tick - bar_length.start_tick, data,
                    FloatToInt(FloatTimesInt(bar_length.value, ticks_per_beat))),
     pushed |-> Append(acc.pushed,
         [tick |-> tick, info |-> info, data |-> data, found |-> TRUE,
          segment |-> bar_length, measure |-> current_measure,
          tag |-> NoteTag(current_measure, info)])]

\* push_raw's loop ended without a break: nothing is recorded
PushDropped(acc, tick, info, data) ==
    [note_maps |-> acc.note_maps,
     pushed |-> Append(acc.pushed,
         [tick |-> tick, info |-> info, data |-> data, found |-> FALSE,
          segment |-> NoSegment, measure |-> -1, tag |-> <<>>])]

\* push_raw(tick, info, data) on acc = [note_maps, pushed]
PushRaw(acc, tick, info, data) ==
    IF LocateSegment(tick) = 0
    THEN PushDropped(acc, tick, info, data)
    ELSE PushFound(acc, tick, info, data,
                   bar_lengths_in_ticks[LocateSegment(tick)],
                   CurrentMeasure(bar_lengths_in_ticks[LocateSegment(tick)], tick))

RECURSIVE PushAll(_, _, _)
\* push_raw for every <<tick, info, data>> of reqs, from index i on
PushAll(acc, reqs, i) ==
    IF i > Len(reqs) THEN acc
    ELSE PushAll(PushRaw(acc, reqs[i][1], reqs[i][2], reqs[i][3]), reqs, i + 1)

-----------------------------------------------------------------------------
(* dumps: the BPM table *)

\* the index in bpm_identifiers of the entry for value, 0 when absent
IdentifierIndex(ids, value) ==
    IF \E k \in 1 .. Len(ids) : ids[k].value = value
    THEN CHOOSE k \in 1 .. Len(ids) : ids[k].value = value
    ELSE 0

\* a variant that numbers the identifier by the position in the list
NewIdentifierByPosition(ids, i) == ZFill(Base36Dumps(i), 2)

\* base36.dumps(len(bpm_identifiers) + 1).zfill(2); i is the loop position
NewIdentifier(ids, i) == ZFill(Base36Dumps(Len(ids) + 1), 2)

\* bpm_identifiers[value]
IdentifierOf(ids, value) == ids[IdentifierIndex(ids, value)].identifier

\* bpm_identifiers after the if of the loop body at position i
IdentifiersWith(ids, value, i) ==
    IF IdentifierIndex(ids, value) # 0 THEN ids
    ELSE Append(ids, [value |-> value, identifier |-> NewIdentifier(ids, i)])

\* lines after the if of the loop body at position i: a BPM definition
\* when the value is not yet in bpm_identifiers
LinesWithDefinition(out, ids, value, i) ==
    IF IdentifierIndex(ids, value) # 0 THEN out
    ELSE Append(out, [kind |-> "bpmdef", identifier |-> NewIdentifier(ids, i),
                      value |-> value])

\* the locals of the loop from the table, the lines and the result of push_raw
BpmLocals(ids, out, after) ==
    [bpm_identifiers |-> ids, lines |-> out,
     note_maps |-> after.note_maps, pushed |-> after.pushed]

\* one pass of the loop body, for the tempo change (tick, value) at position i
BpmStep(acc, tick, value, i) ==
    BpmLocals(IdentifiersWith(acc.bpm_identifiers, value, i),
              LinesWithDefinition(acc.lines, acc.bpm_identifiers, value, i),
              PushRaw([note_maps |-> acc.note_maps, pushed |-> acc.pushed],
                      tick, BpmInfo,
                      IdentifierOf(IdentifiersWith(acc.bpm_identifiers, value, i),
                                   value)))

RECURSIVE BpmLoop(_, _, _)
\* for tick, value in bpms: ...   on acc = [bpm_identifiers, lines, note_maps, pushed]
BpmLoop(acc, list, i) ==
    IF i > Len(list) THEN acc
    ELSE BpmLoop(BpmStep(acc, list[i][1], list[i][2], i), list, i + 1)

\* the timescale directive and the two stub directives
TilLines ==
    <<[kind |-> "til",
       list |-> [i \in 1 .. Len(tils) |->
                    <<tils[i][1] \div (ticks_per_beat * 4),
                      tils[i][1] % (ticks_per_beat * 4),
                      tils[i][2]>>]],
      [kind |-> "hispeed"],
      [kind |-> "measurehs"]>>

-----------------------------------------------------------------------------
(* dumps: slides and guides *)

\* the pushes of one group on its channel; category is 3 (slide) or 9 (guide)
GroupPushes(steps, category, channel) ==
    [i \in 1 .. Len(steps) |->
        <<steps[i].tick,
          <<category>> \o Base36Dumps(steps[i].lane) \o Base36Dumps(channel),
          NoteData(steps[i])>>]

\* the locals of the loop from the provider's map and the result of the pushes
GroupLocals(map, after) ==
    [map |-> map, note_maps |-> after.note_maps, pushed |-> after.pushed,
     raised |-> FALSE]

\* one pass of the loop body for the group steps, got being what
\* generate_channel returned
GroupStep(acc, steps, category, got) ==
    IF got.key = -1
    THEN [acc EXCEPT !.raised = TRUE]
    ELSE GroupLocals(got.map,
                     PushAll([note_maps |-> acc.note_maps, pushed |-> acc.pushed],
                             GroupPushes(steps, category, got.key), 1))

RECURSIVE GroupLoop(_, _, _, _)
\* for steps in slides: ...  (and guides), on
\* acc = [map, note_maps, pushed, raised]; raised is generate_channel's raise
GroupLoop(acc, groups, category, i) ==
    IF i > Len(groups) \/ acc.raised THEN acc
    ELSE GroupLoop(GroupStep(acc, groups[i], category,
                             GenerateChannel(acc.map, groups[i][1].tick,
                                             groups[i][Len(groups[i])].tick)),
                   groups, category, i + 1)

-----------------------------------------------------------------------------
(* dumps: rendering the note lines *)

RECURSIVE RawsGcd(_, _, _)
\* gcd = ticks_per_measure; for raw in raws: gcd = math.gcd(raw[0], gcd)
RawsGcd(raws, i, gcd) ==
    IF i > Len(raws) THEN gcd ELSE RawsGcd(raws, i + 1, Gcd(raws[i][1], gcd))

RECURSIVE FirstWriteData(_, _, _, _)
\* a variant that keeps the first symbol written at an offset
FirstWriteData(raws, ticks_per_measure, i, data) ==
    IF i > Len(raws) THEN data
    ELSE LET key == raws[i][1] % ticks_per_measure
         IN  FirstWriteData(raws, ticks_per_measure, i + 1,
                IF key \in DOMAIN data THEN data ELSE (key :> raws[i][2]) @@ data)

RECURSIVE RawsData(_, _, _, _)
\* data = {}; for raw in raws: data[raw[0] % ticks_per_measure] = raw[1]
RawsData(raws, ticks_per_measure, i, data) ==
    IF i > Len(raws) THEN data
    ELSE RawsData(raws, ticks_per_measure, i + 1,
                  ((raws[i][1] % ticks_per_measure) :> raws[i][2]) @@ data)

\* a variant that steps by one tick whatever the offsets are
CellOffsetsUnit(ticks_per_measure, gcd) ==
    [k \in 1 .. ticks_per_measure |-> k - 1]

\* range(0, ticks_per_measure, gcd), for gcd > 0
CellOffsets(ticks_per_measure, gcd) ==
    [k \in 1 .. ((ticks_per_measure + gcd - 1) \div gcd) |-> (k - 1) * gcd]

\* the `values` list of one bucket: data.get(i) or '00' for each offset
RenderValues(note_map) ==
    LET tpm == note_map.ticks_per_measure
        gcd == RawsGcd(note_map.raws, 1, tpm)
        data == RawsData(note_map.raws, tpm, 1, <<>>)
        offsets == CellOffsets(tpm, gcd)
    IN  [k \in 1 .. Len(offsets) |->
            IF offsets[k] \in DOMAIN data /\ data[offsets[k]] # <<>>
            THEN data[offsets[k]]
            ELSE EmptyCell]

\* for tag, note_map in note_maps.items(): lines.append(f'#{tag}:{values}')
NoteLines(maps) ==
    [k \in 1 .. Len(maps) |->
        [kind |-> "note", tag |-> maps[k].tag, values |-> RenderValues(maps[k])]]

-----------------------------------------------------------------------------
(* The inputs: bounds and the Scores the model serializes *)

MaxNotes == 3        \* taps of one Score
MaxBpms == 3         \* tempo changes of one Score
MaxBarLengths == 2   \* bar-length changes of one Score
MaxGroups == 2       \* slides, and guides, of one Score
MaxRequests == 2     \* request strings of one Score
AllocMaxTick == 2    \* ticks of the allocator's requests in AllocSpec
AllocMaxCalls == 4   \* generate_channel calls of one AllocSpec run

SeqsUpTo(S, n) == UNION {[1 .. k -> S] : k \in 0 .. n}

Note(tick, lane, type) == [tick |-> tick, lane |-> lane, width |-> 1, type |-> type]

Field(name, is_str, present, requests) ==
    [name |-> name, is_str |-> is_str, present |-> present, requests |-> requests]

\* Metadata, with the fields export() sets and the requests field dumps
\* reads, in declaration order
Metadata(title, waveoffset, requests_present, requests) ==
    <<Field("title", TRUE, title, <<>>),
      Field("waveoffset", FALSE, waveoffset, <<>>),
      Field("requests", FALSE, requests_present, requests)>>

Requests == {[word |-> "other", arg |-> 0], [word |-> "ticks_per_beat", arg |-> 240]}

MetadataSet ==
    {Metadata(t, w, FALSE, <<>>) : t \in BOOLEAN, w \in BOOLEAN}
    \cup {Metadata(t, FALSE, TRUE, r) : t \in BOOLEAN, r \in SeqsUpTo(Requests, MaxRequests)}

\* the Score export() builds when the chart is empty
BaseScore ==
    [metadata |-> Metadata(TRUE, FALSE, FALSE, <<>>),
     bar_lengths |-> <<<<0, Float4>>>>,
     bpms |-> <<>>, taps |-> <<>>, directionals |-> <<>>,
     slides |-> <<>>, guides |-> <<>>, tils |-> <<>>]

TapNotes == {Note(0, 2, 1), Note(0, 2, 2), Note(240, 2, 1), Note(360, 2, 1)}
BarTables == SeqsUpTo({<<0, Float4>>, <<0, Float3_2>>, <<1, Float3>>, <<2, Float3>>,
                       <<2, Float4>>}, MaxBarLengths)
FarTicks == {0, 1440, 1920, 3350, 3360, 4608, 1442640}
BpmChanges == {<<0, 90>>, <<0, 120>>, <<480, 90>>, <<480, 150>>}
Groups == {<<Note(0, 1, 1), Note(0, 1, 2)>>,
           <<Note(0, 1, 1), Note(480, 1, 2)>>,
           <<Note(240, 1, 1), Note(480, 3, 5), Note(960, 1, 2)>>,
           <<Note(2400, 1, 1), Note(2880, 1, 2)>>}

\* Scores rich in taps of one lane, on one or two segments, with one tempo
\* change
TapScores ==
    {[BaseScore EXCEPT !.taps = t, !.bar_lengths = b, !.bpms = <<<<0, 120>>>>] :
        t \in SeqsUpTo(TapNotes, MaxNotes),
        b \in {<<<<0, Float4>>>>, <<<<0, Float4>>, <<1, Float3>>>>}}

\* Scores rich in bar-length tables, with one tap and one tempo change
BarScores ==
    {[BaseScore EXCEPT !.bar_lengths = b, !.taps = <<Note(t, 2, 1)>>,
                       !.bpms = <<<<0, 120>>>>] :
        b \in BarTables, t \in FarTicks}

\* Scores rich in tempo changes
BpmScores ==
    {[BaseScore EXCEPT !.bpms = b, !.tils = <<<<2000, 2>>>>] :
        b \in SeqsUpTo(BpmChanges, MaxBpms)}

\* Scores rich in slides, and Scores rich in guides
GroupScores ==
    {[BaseScore EXCEPT !.slides = sl, !.guides = <<g>>,
                       !.directionals = <<Note(240, 2, 1), Note(0, 2, 3)>>] :
        sl \in SeqsUpTo(Groups, MaxGroups), g \in Groups}
    \cup {[BaseScore EXCEPT !.guides = g] : g \in SeqsUpTo(Groups, MaxGroups)}

\* Scores rich in metadata
MetadataScores ==
    {[BaseScore EXCEPT !.metadata = m, !.taps = t, !.bpms = <<<<0, 120>>, <<0, 120>>>>] :
        m \in MetadataSet, t \in {<<>>, <<Note(240, 2, 1)>>}}

\* Scores at the resource ceilings: BpmLimit tempo changes of one value,
\* and NumChannels + 1 slides (or guides) that are all active at once, at
\* ticks 240..480 or all at tick 0
CeilingScores ==
    {[BaseScore EXCEPT !.bpms = [i \in 1 .. BpmLimit |-> <<0, 120>>]],
     [BaseScore EXCEPT !.slides = [i \in 1 .. NumChannels + 1 |->
                                     <<Note(240, 1, 1), Note(480, 1, 2)>>]],
     [BaseScore EXCEPT !.slides = [i \in 1 .. NumChannels + 1 |->
                                     <<Note(0, 1, 1), Note(0, 2, 2)>>]],
     [BaseScore EXCEPT !.taps = <<Note(0, 2, 1)>>,
                       !.guides = [i \in 1 .. NumChannels + 1 |->
                                     <<Note(240, 1, 1), Note(480, 1, 2)>>]]}

\* four groups of which at most two are active at any tick: [0, 480] and
\* [240, 960] overlap, [720, 2640] overlaps [240, 960] and [2400, 2880]
ChannelGroups == <<<<Note(0, 1, 1), Note(480, 1, 2)>>,
                   <<Note(240, 1, 1), Note(480, 3, 5), Note(960, 1, 2)>>,
                   <<Note(2400, 1, 1), Note(2880, 1, 2)>>,
                   <<Note(720, 1, 1), Note(2640, 1, 2)>>>>

\* Scores whose slides (or guides) are the four ChannelGroups in every
\* order the caller can give them in, and a Score with one slide whose steps
\* are not in tick order
ChannelScores ==
    {[BaseScore EXCEPT !.slides = [i \in 1 .. 4 |-> ChannelGroups[p[i]]]] :
        p \in {q \in [1 .. 4 -> 1 .. 4] : \A i, j \in 1 .. 4 : q[i] = q[j] => i = j}}
    \cup {[BaseScore EXCEPT !.guides = [i \in 1 .. 4 |-> ChannelGroups[p[i]]]] :
        p \in {q \in [1 .. 4 -> 1 .. 4] : \A i, j \in 1 .. 4 : q[i] = q[j] => i = j}}
    \cup {[BaseScore EXCEPT !.slides = <<<<Note(480, 1, 1), Note(0, 1, 2)>>>>]}

Scores == TapScores \cup BarScores \cup BpmScores \cup GroupScores
            \cup MetadataScores \cup CeilingScores \cup ChannelScores

-----------------------------------------------------------------------------
(* dump(score, fp): one action per section of dumps, in program order *)

NoCall == [start_tick |-> -1, end_tick |-> -1, key |-> -1]

AllocIdle ==
    /\ channel_map = NewChannelMap
    /\ assigned = {}
    /\ calls = 0
    /\ last = NoCall

Init ==
    /\ AllocIdle
    /\ score \in Scores
    /\ pc = "metadata"
    /\ lines = <<>>
    /\ ticks_per_beat = DefaultTicksPerBeat
    /\ bar_lengths_in_ticks = <<>>
    /\ note_maps = <<>>
    /\ bpm_identifiers = <<>>
    /\ slide_provider = NewChannelMap
    /\ guide_provider = NewChannelMap
    /\ pushed = <<>>
    /\ failure = ""
    /\ written = <<>>

\* lines 81-99: the header comment, the metadata directives, a blank line
MetadataSection ==
    /\ pc = "metadata"
    /\ LET done == MetadataLoop(score.metadata, 1,
                       [lines |-> <<[kind |-> "comment"]>>,
                        ticks_per_beat |-> DefaultTicksPerBeat])
       IN  /\ lines' = Append(done.lines, [kind |-> "blank"])
           /\ ticks_per_beat' = done.ticks_per_beat
    /\ pc' = "bar_lengths"
    /\ UNCHANGED <<score, bar_lengths_in_ticks, note_maps, bpm_identifiers,
                   slide_provider, guide_provider, pushed, failure, written>>
    /\ UNCHANGED avars

\* lines 112-114: one bar-length directive per entry, a blank line
BarLengthSection ==
    /\ pc = "bar_lengths"
    /\ lines' = lines
                \o [i \in 1 .. Len(bar_lengths) |->
                       [kind |-> "bar_length", measure |-> bar_lengths[i][1],
                        value |-> bar_lengths[i][2]]]
                \o <<[kind |-> "blank"]>>
    /\ pc' = "segments"
    /\ UNCHANGED <<score, ticks_per_beat, bar_lengths_in_ticks, note_maps,
                   bpm_identifiers, slide_provider, guide_provider, pushed,
                   failure, written>>
    /\ UNCHANGED avars

\* lines 116-126: the segments, latest first
BuildSegments ==
    /\ pc = "segments"
    /\ bar_lengths_in_ticks' = BarLengthsInTicks(bar_lengths, ticks_per_beat)
    /\ pc' = "bpm_check"
    /\ UNCHANGED <<score, lines, ticks_per_beat, note_maps, bpm_identifiers,
                   slide_provider, guide_provider, pushed, failure, written>>
    /\ UNCHANGED avars

\* lines 137-138: the raise evaluates bpms.length, which a list does not
\* have, so the exception that leaves dumps is an AttributeError
BpmCheck ==
    /\ pc = "bpm_check"
    /\ IF Len(bpms) >= BpmLimit
       THEN pc' = "failed" /\ failure' = "AttributeError"
       ELSE pc' = "bpms" /\ failure' = failure
    /\ UNCHANGED <<score, lines, ticks_per_beat, bar_lengths_in_ticks, note_maps,
                   bpm_identifiers, slide_provider, guide_provider, pushed,
                   written>>
    /\ UNCHANGED avars

\* the locals dumps holds when the BPM loop has ended, and the blank line
BpmsDone(done) ==
    /\ bpm_identifiers' = done.bpm_identifiers
    /\ lines' = Append(done.lines, [kind |-> "blank"])
    /\ note_maps' = done.note_maps
    /\ pushed' = done.pushed

\* lines 140-147: the BPM definitions and references, a blank line
BpmSection ==
    /\ pc = "bpms"
    /\ BpmsDone(BpmLoop([bpm_identifiers |-> <<>>, lines |-> lines,
                         note_maps |-> note_maps, pushed |-> pushed], bpms, 1))
    /\ pc' = "tils"
    /\ UNCHANGED <<score, ticks_per_beat, bar_lengths_in_ticks, slide_provider,
                   guide_provider, failure, written>>
    /\ UNCHANGED avars

\* lines 150-156: the timescale directive, the two stubs, a blank line
TilSection ==
    /\ pc = "tils"
    /\ lines' = lines \o TilLines \o <<[kind |-> "blank"]>>
    /\ pc' = "taps"
    /\ UNCHANGED <<score, ticks_per_beat, bar_lengths_in_ticks, note_maps,
                   bpm_identifiers, slide_provider, guide_provider, pushed,
                   failure, written>>
    /\ UNCHANGED avars

\* note_maps when a loop of pushes has ended
NotesDone(done) ==
    /\ note_maps' = done.note_maps
    /\ pushed' = done.pushed

\* lines 158-159
PushTaps ==
    /\ pc = "taps"
    /\ NotesDone(PushAll([note_maps |-> note_maps, pushed |-> pushed],
                         [i \in 1 .. Len(taps) |->
                             <<taps[i].tick, TapInfo(taps[i]), NoteData(taps[i])>>],
                         1))
    /\ pc' = "directionals"
    /\ UNCHANGED <<score, lines, ticks_per_beat, bar_lengths_in_ticks,
                   bpm_identifiers, slide_provider, guide_provider, failure,
                   written>>
    /\ UNCHANGED avars

\* lines 161-162
PushDirectionals ==
    /\ pc = "directionals"
    /\ NotesDone(PushAll([note_maps |-> note_maps, pushed |-> pushed],
                         [i \in 1 .. Len(directionals) |->
                             <<directionals[i].tick,
                               DirectionalInfo(directionals[i]),
                               NoteData(directionals[i])>>],
                         1))
    /\ pc' = "slides"
    /\ UNCHANGED <<score, lines, ticks_per_beat, bar_lengths_in_ticks,
                   bpm_identifiers, slide_provider, guide_provider, failure,
                   written>>
    /\ UNCHANGED avars

\* the end of a loop over groups: on generate_channel's raise dumps is left,
\* otherwise it goes on at the section `then`
GroupsDone(done, then) ==
    /\ NotesDone(done)
    /\ IF done.raised
       THEN pc' = "failed" /\ failure' = "No more channel available."
       ELSE pc' = then /\ failure' = failure

\* lines 164-170
PushSlides ==
    /\ pc = "slides"
    /\ \E done \in {GroupLoop([map |-> slide_provider, note_maps |-> note_maps,
                                pushed |-> pushed, raised |-> FALSE], slides, 3, 1)} :
          slide_provider' = done.map /\ GroupsDone(done, "guides")
    /\ UNCHANGED <<score, lines, ticks_per_beat, bar_lengths_in_ticks,
                   bpm_identifiers, guide_provider, written>>
    /\ UNCHANGED avars

\* lines 173-179
PushGuides ==
    /\ pc = "guides"
    /\ \E done \in {GroupLoop([map |-> guide_provider, note_maps |-> note_maps,
                                pushed |-> pushed, raised |-> FALSE], guides, 9, 1)} :
          guide_provider' = done.map /\ GroupsDone(done, "render")
    /\ UNCHANGED <<score, lines, ticks_per_beat, bar_lengths_in_ticks,
                   bpm_identifiers, slide_provider, written>>
    /\ UNCHANGED avars

\* lines 181-195: the note lines in insertion order, the trailing blank
\* line, and the return of the joined lines
Render ==
    /\ pc = "render"
    /\ lines' = lines \o NoteLines(note_maps) \o <<[kind |-> "blank"]>>
    /\ pc' = "return"
    /\ UNCHANGED <<score, ticks_per_beat, bar_lengths_in_ticks, note_maps,
                   bpm_identifiers, slide_provider, guide_provider, pushed,
                   failure, written>>
    /\ UNCHANGED avars

\* line 56: fp.write(dumps(score, **kw))
Write ==
    /\ pc = "return"
    /\ written' = lines
    /\ pc' = "done"
    /\ UNCHANGED <<score, lines, ticks_per_beat, bar_lengths_in_ticks, note_maps,
                   bpm_identifiers, slide_provider, guide_provider, pushed,
                   failure>>
    /\ UNCHANGED avars

Next ==
    \/ MetadataSection
    \/ BarLengthSection
    \/ BuildSegments
    \/ BpmCheck
    \/ BpmSection
    \/ TilSection
    \/ PushTaps
    \/ PushDirectionals
    \/ PushSlides
    \/ PushGuides
    \/ Render
    \/ Write

Spec == Init /\ [][Next]_vars

-----------------------------------------------------------------------------
(* Claims about dump/dumps *)

\* the [first tick, last tick] interval a group asks a channel for
GroupInterval(steps) == <<steps[1].tick, steps[Len(steps)].tick>>

PairwiseOverlapping(groups) ==
    \A i \in 1 .. Len(groups) : \A j \in 1 .. Len(groups) :
        Overlap(GroupInterval(groups[i]), GroupInterval(groups[j]))

\* C8: generate_channel fails exactly when all 36 channels are bound to
\* intervals overlapping the request; in particular, after 36 successful
\* calls whose intervals overlap pairwise, the 37th call overlapping them
\* all fails: more than 36 pairwise-overlapping slides (guides) never get
\* through the slides (guides) loop.
C8_ThirtySeventhCallFails ==
    /\ (Len(score.slides) > NumChannels /\ PairwiseOverlapping(score.slides))
            => pc \notin {"guides", "render", "return", "done"}
    /\ (Len(score.guides) > NumChannels /\ PairwiseOverlapping(score.guides))
            => pc \notin {"render", "return", "done"}

\* the bar-length table the spec calls invalid: empty, or not anchored at
\* measure 0
InvalidBarTable == bar_lengths = <<>> \/ bar_lengths[1][1] # 0

\* C2: with an empty bar-length list, or one whose first entry is not at
\* measure 0, serialization fails before producing output, and no push is
\* dropped for want of a segment containing its tick.
C2_InvalidTableRejected ==
    InvalidBarTable =>
        /\ pc \notin {"return", "done"}
        /\ \A k \in 1 .. Len(pushed) : pushed[k].found

\* the distinct tempo values of the Score
DistinctBpmValues == {score.bpms[i][2] : i \in 1 .. Len(score.bpms)}

\* C3: the BPM check fails exactly when the number of distinct tempo values
\* exceeds 36^2 - 1; a list with fewer distinct values passes whatever its
\* length.
C3_LimitOnDistinctValues ==
    pc \notin {"metadata", "bar_lengths", "segments", "bpm_check"} =>
        ((pc = "failed" /\ failure = "AttributeError")
            <=> Cardinality(DistinctBpmValues) > BpmLimit)

\* a sequence of n copies of x
Repeat(x, n) == [i \in 1 .. n |-> x]

\* the kinds of the lines of a document
KindsOf(doc) == [i \in 1 .. Len(doc) |-> doc[i].kind]

\* the metadata fields that are set, without the requests field
PlainFields == SelectSeq(score.metadata,
                         LAMBDA field : field.present /\ field.name # "requests")

\* the request strings of the Score, <<>> when the requests field is not set
RequestsOf ==
    LET at == {i \in 1 .. Len(score.metadata) :
                  score.metadata[i].present /\ score.metadata[i].name = "requests"}
    IN  IF at = {} THEN <<>> ELSE score.metadata[CHOOSE i \in at : TRUE].requests

RequestsPresent ==
    \E i \in 1 .. Len(score.metadata) :
        score.metadata[i].present /\ score.metadata[i].name = "requests"

\* the kinds of the document in the claimed section order; separator is
\* what stands between the plain directives and the request directives
SectionKinds(separator) ==
    <<"comment">>
        \o Repeat("meta", Len(PlainFields))
        \o (IF RequestsPresent
            THEN separator \o Repeat("request", Len(RequestsOf))
            ELSE <<>>)
        \o <<"blank">>
        \o Repeat("bar_length", Len(score.bar_lengths))
        \o <<"blank">>
        \o Repeat("bpmdef", Cardinality(DistinctBpmValues))
        \o <<"blank">>
        \o <<"til", "hispeed", "measurehs">>
        \o <<"blank">>
        \o Repeat("note", Len(note_maps))
        \o <<"blank">>

\* the directives of the document name the set fields and the requests in
\* order, and the bar-length directives ascend by measure
SectionContents(doc) ==
    LET meta == SelectSeq(doc, LAMBDA line : line.kind = "meta")
        reqs == SelectSeq(doc, LAMBDA line : line.kind = "request")
        bars == SelectSeq(doc, LAMBDA line : line.kind = "bar_length")
    IN  /\ Len(meta) = Len(PlainFields)
        /\ \A i \in 1 .. Len(meta) : meta[i].name = PlainFields[i].name
        /\ Len(reqs) = Len(RequestsOf)
        /\ \A i \in 1 .. Len(reqs) : reqs[i].request = RequestsOf[i]
        /\ \A i \in 1 .. (Len(bars) - 1) : bars[i].measure <= bars[i + 1].measure

\* C4 as stated: the written document is the header comment, the metadata
\* directives (one per set field, one per request string) with no blank
\* line among them, a blank line, the bar-length directives ascending by
\* measure, a blank line, the BPM definitions, a blank line, the timescale
\* directive and the two stubs, a blank line, the note lines and a
\* trailing blank line.
C4_SectionOrder ==
    pc = "done" =>
        /\ KindsOf(written) = SectionKinds(<<>>)
        /\ SectionContents(written)

\* C4 amended: the same order, except that when the requests field is set
\* one blank line stands before the request directives (also when the list
\* of requests is empty).
C4_SectionOrderRequestsSeparated ==
    pc = "done" =>
        /\ KindsOf(written) = SectionKinds(<<"blank">>)
        /\ SectionContents(written)

\* C4's case: a written document of a Score with two request strings, a
\* set title, a BPM definition and a note line.
C4_Witness ==
    /\ pc = "done"
    /\ Len(RequestsOf) = 2
    /\ Len(PlainFields) >= 1
    /\ \E i \in 1 .. Len(written) : written[i].kind = "bpmdef"
    /\ \E i \in 1 .. Len(written) : written[i].kind = "note"
    /\ \E i \in 1 .. (Len(written) - 1) :
          written[i].kind = "blank" /\ written[i + 1].kind = "request"

\* C9: a failed dump has written nothing, and a dump that succeeds has not
\* swallowed a failure condition: no note or BPM reference of the Score is
\* missing from the document because its push found no segment.
C9_FailureLeavesNoDocument ==
    /\ pc = "failed" => written = <<>>
    /\ pc = "done" => \A k \in 1 .. Len(pushed) : pushed[k].found

\* dumps has built every line of the document
Rendered == pc \in {"return", "done"}

\* the note lines of the document, in order
NoteLinesOf(doc) == SelectSeq(doc, LAMBDA line : line.kind = "note")

\* the within-measure offsets present in a bucket
OffsetsOf(note_map) ==
    {note_map.raws[j][1] % note_map.ticks_per_measure : j \in 1 .. Len(note_map.raws)}

\* the greatest common divisor of ticks_per_measure and the bucket's offsets
ResolutionOf(note_map) ==
    LET tpm == note_map.ticks_per_measure
        common == {d \in 1 .. tpm :
                      /\ tpm % d = 0
                      /\ \A o \in OffsetsOf(note_map) : o % d = 0}
    IN  CHOOSE d \in common : \A e \in common : e <= d

\* C5: on a valid bar-length table every pushed tick T is located in the
\* most recently started segment with start_tick <= T, its within-measure
\* offset lies in 0 .. ticksPerMeasure - 1, and start_tick +
\* (measure - segment measure) * ticksPerMeasure + cell index * resolution
\* is T again.
C5_LocateReconstructsTick ==
    ~InvalidBarTable =>
        \A k \in 1 .. Len(pushed) :
            LET p == pushed[k]
                note_map == note_maps[BucketIndex(note_maps, p.tag)]
                tpm == note_map.ticks_per_measure
                offset == (p.tick - p.segment.start_tick) % tpm
                resolution == ResolutionOf(note_map)
                cell == offset \div resolution
            IN  /\ p.found
                /\ p.segment.start_tick <= p.tick
                /\ \A i \in 1 .. Len(bar_lengths_in_ticks) :
                       bar_lengths_in_ticks[i].start_tick <= p.tick
                           => bar_lengths_in_ticks[i].start_tick <= p.segment.start_tick
                /\ 0 <= offset /\ offset < tpm
                /\ p.segment.start_tick + (p.measure - p.segment.measure) * tpm
                       + cell * resolution = p.tick

\* C6: every rendered note line has ticksPerMeasure / resolution cells of
\* two characters, resolution being the gcd of ticksPerMeasure and the
\* bucket's offsets; a symbol pushed at an offset stands at cell
\* offset / resolution and every other cell is "00".
C6_RenderedCells ==
    Rendered =>
        LET out == NoteLinesOf(lines)
        IN  /\ Len(out) = Len(note_maps)
            /\ \A k \in 1 .. Len(note_maps) :
                  LET note_map == note_maps[k]
                      tpm == note_map.ticks_per_measure
                      resolution == ResolutionOf(note_map)
                      values == out[k].values
                  IN  /\ out[k].tag = note_map.tag
                      /\ tpm % resolution = 0
                      /\ Len(values) = tpm \div resolution
                      /\ \A c \in 1 .. Len(values) :
                            /\ Len(values[c]) = 2
                            /\ IF (c - 1) * resolution \in OffsetsOf(note_map)
                               THEN \E j \in 1 .. Len(note_map.raws) :
                                       /\ note_map.raws[j][1] % tpm = (c - 1) * resolution
                                       /\ note_map.raws[j][2] = values[c]
                               ELSE values[c] = EmptyCell

\* C6's cases: a bucket of 1920 ticks with offsets {0, 240, 360} rendered
\* in 16 cells, and a bucket whose only offset is 0 rendered in one cell.
C6_Witness ==
    /\ pc = "done"
    /\ \E k \in 1 .. Len(note_maps) :
          /\ note_maps[k].ticks_per_measure = 1920
          /\ OffsetsOf(note_maps[k]) = {0, 240, 360}
          /\ Len(NoteLinesOf(written)[k].values) = 16
    /\ \E k \in 1 .. Len(note_maps) :
          /\ OffsetsOf(note_maps[k]) = {0}
          /\ Len(NoteLinesOf(written)[k].values) = 1

\* the place of value v among the distinct tempo values, by first occurrence
FirstIndex(v) == CHOOSE i \in 1 .. Len(bpms) :
                    bpms[i][2] = v /\ \A j \in 1 .. (i - 1) : bpms[j][2] # v
OrdinalOf(v) == Cardinality({w \in DistinctBpmValues : FirstIndex(w) <= FirstIndex(v)})

\* the two-character base-36 numeral of k < 36^2
TwoDigits(k) == <<k \div 36, k % 36>>

\* C7: the k-th distinct tempo value, by first occurrence in the sorted
\* list, gets the base-36 identifier of k; each distinct value has exactly
\* one BPM definition; every tempo change pushes the identifier of its
\* value; distinct values have distinct identifiers.
C7_BpmIdentifiers ==
    pc \in {"tils", "taps", "directionals", "slides", "guides", "render",
            "return", "done"} =>
        LET refs == SelectSeq(pushed, LAMBDA p : p.info = BpmInfo)
            defs == SelectSeq(lines, LAMBDA line : line.kind = "bpmdef")
        IN  /\ Len(bpm_identifiers) = Cardinality(DistinctBpmValues)
            /\ \A k \in 1 .. Len(bpm_identifiers) :
                  /\ OrdinalOf(bpm_identifiers[k].value) = k
                  /\ bpm_identifiers[k].identifier = TwoDigits(k)
            /\ Len(defs) = Cardinality(DistinctBpmValues)
            /\ \A v \in DistinctBpmValues :
                  \E k \in 1 .. Len(defs) :
                      defs[k].value = v /\ defs[k].identifier = TwoDigits(OrdinalOf(v))
            /\ Len(refs) = Len(bpms)
            /\ \A i \in 1 .. Len(bpms) :
                  /\ refs[i].tick = bpms[i][1]
                  /\ refs[i].data = TwoDigits(OrdinalOf(bpms[i][2]))
            /\ \A j \in 1 .. Len(bpm_identifiers) : \A k \in 1 .. Len(bpm_identifiers) :
                  j # k => bpm_identifiers[j].identifier # bpm_identifiers[k].identifier

\* C7's case: three tempo changes, the third repeating the value of the
\* first, so that the second distinct value is met at the second change.
C7_Witness ==
    /\ pc = "done"
    /\ Len(bpms) = 3
    /\ bpms[1][2] # bpms[2][2]
    /\ bpms[3][2] = bpms[1][2]
    /\ Len(bpm_identifiers) = 2

\* the raws of a bucket without those a later raw of the same
\* within-measure offset follows
LastPushes(note_map) ==
    LET raws == note_map.raws
        tpm == note_map.ticks_per_measure
        keep == {j \in 1 .. Len(raws) :
                    \A l \in (j + 1) .. Len(raws) : raws[l][1] % tpm # raws[j][1] % tpm}
        at == [k \in 1 .. Cardinality(keep) |->
                  CHOOSE j \in keep : Cardinality({l \in keep : l <= j}) = k]
    IN  [k \in 1 .. Cardinality(keep) |-> raws[at[k]]]

\* C10: when several pushes meet at one (measure, line tag, offset), the
\* cell holds the symbol of the last of them, and the whole line is the one
\* rendered from the last pushes alone.
C10_LastWriteWins ==
    Rendered =>
        \A k \in 1 .. Len(note_maps) :
            LET note_map == note_maps[k]
                tpm == note_map.ticks_per_measure
                last_only == LastPushes(note_map)
                values == NoteLinesOf(lines)[k].values
            IN  /\ values = RenderValues([note_map EXCEPT !.raws = last_only])
                /\ \A j \in 1 .. Len(last_only) :
                      values[((last_only[j][1] % tpm) \div ResolutionOf(note_map)) + 1]
                          = last_only[j][2]

\* C10's case: a written line of a bucket in which two pushes with different
\* symbols met at one offset, and a third push went to another offset.
C10_Witness ==
    /\ pc = "done"
    /\ \E k \in 1 .. Len(note_maps) :
          LET raws == note_maps[k].raws
          IN  /\ Len(raws) = 3
              /\ \E i \in 1 .. 3 : \E j \in 1 .. 3 :
                    /\ i < j
                    /\ raws[i][1] = raws[j][1]
                    /\ raws[i][2] # raws[j][2]
              /\ Cardinality(OffsetsOf(note_maps[k])) = 2

\* every group's first step is not after its last step
FirstNotAfterLast(groups) ==
    \A i \in 1 .. Len(groups) : GroupInterval(groups[i])[1] <= GroupInterval(groups[i])[2]

\* the groups whose [first tick, last tick] interval contains tick t
ActiveAt(groups, t) ==
    {i \in 1 .. Len(groups) :
        GroupInterval(groups[i])[1] <= t /\ t <= GroupInterval(groups[i])[2]}

\* the largest number of groups active at one tick; a tick where the most
\* groups are active can be taken among the groups' endpoints
MaxActive(groups) ==
    LET ends == {GroupInterval(groups[i])[1] : i \in 1 .. Len(groups)}
                    \cup {GroupInterval(groups[i])[2] : i \in 1 .. Len(groups)}
        counts == {Cardinality(ActiveAt(groups, t)) : t \in ends} \cup {0}
    IN  CHOOSE n \in counts : \A m \in counts : m <= n

\* the channels generate_channel handed out to the groups of a category (3
\* for slides, 9 for guides), read off the tags of the groups' pushes
ChannelsHandedOut(category) ==
    {pushed[k].info[3] : k \in {n \in 1 .. Len(pushed) :
                                  /\ Len(pushed[n].info) = 3
                                  /\ pushed[n].info[1] = category}}

\* C11: dumps allocates the channels of each category's groups in ascending
\* order of first-step tick; when every group of the category has its first
\* step not after its last, the number of distinct channels handed out never
\* exceeds the largest number of groups active at one tick, and so
\* generate_channel only raises when more than 36 groups of the category are
\* active at some tick.
C11_ChannelsWithinMaxActive ==
    /\ FirstNotAfterLast(score.slides)
            => Cardinality(ChannelsHandedOut(3)) <= MaxActive(score.slides)
    /\ FirstNotAfterLast(score.guides)
            => Cardinality(ChannelsHandedOut(9)) <= MaxActive(score.guides)
    /\ (/\ failure = "No more channel available."
        /\ FirstNotAfterLast(score.slides)
        /\ FirstNotAfterLast(score.guides))
            => \/ MaxActive(score.slides) > NumChannels
               \/ MaxActive(score.guides) > NumChannels

\* four slides given out of tick order, of which at most two are active at
\* once, went through on two channels
C11_Witness ==
    /\ pc = "done"
    /\ Len(score.slides) = 4
    /\ score.slides # slides
    /\ FirstNotAfterLast(score.slides)
    /\ MaxActive(score.slides) = 2
    /\ Cardinality(ChannelsHandedOut(3)) = 2

-----------------------------------------------------------------------------
(* The allocator on its own: generate_channel called on one               *)
(* ChannelProvider, in any order, with any intervals start <= end          *)

AllocInit ==
    /\ AllocIdle
    /\ score = BaseScore
    /\ pc = "alloc"
    /\ lines = <<>>
    /\ ticks_per_beat = DefaultTicksPerBeat
    /\ bar_lengths_in_ticks = <<>>
    /\ note_maps = <<>>
    /\ bpm_identifiers = <<>>
    /\ slide_provider = NewChannelMap
    /\ guide_provider = NewChannelMap
    /\ pushed = <<>>
    /\ failure = ""
    /\ written = <<>>

\* channel = slide_provider.generate_channel(start_tick, end_tick)
GenerateChannelCall(start_tick, end_tick) ==
    /\ pc = "alloc"
    /\ calls < AllocMaxCalls
    /\ LET got == GenerateChannel(channel_map, start_tick, end_tick)
       IN  /\ channel_map' = got.map
           /\ assigned' = IF got.key = -1 THEN assigned
                          ELSE assigned \cup {<<start_tick, end_tick, got.key>>}
           /\ last' = [start_tick |-> start_tick, end_tick |-> end_tick,
                       key |-> got.key]
           /\ pc' = IF got.key = -1 THEN "failed" ELSE pc
           /\ failure' = IF got.key = -1 THEN "No more channel available."
                         ELSE failure
    /\ calls' = calls + 1
    /\ UNCHANGED <<score, lines, ticks_per_beat, bar_lengths_in_ticks, note_maps,
                   bpm_identifiers, slide_provider, guide_provider, pushed,
                   written>>

AllocNext ==
    \E start_tick \in 0 .. AllocMaxTick :
        \E end_tick \in start_tick .. AllocMaxTick :
            GenerateChannelCall(start_tick, end_tick)

AllocSpec == AllocInit /\ [][AllocNext]_vars

\* C1: no two overlapping requested intervals were given the same channel.
C1_NoSharedChannel ==
    \A a \in assigned : \A b \in assigned :
        (a # b /\ Overlap(<<a[1], a[2]>>, <<b[1], b[2]>>)) => a[3] # b[3]

=============================================================================
